---- MODULE Spec2Model ----
(***************************************************************************)
(* Model of survey.py (ABX listening-test survey generator).               *)
(*                                                                         *)
(* Two specifications share this module:                                   *)
(*   CipherSpec  the filename cipher (caesar, encode_filename,             *)
(*               decode_filename) applied to bounded filenames;            *)
(*   Spec        one run of main() with ACTION == 'create_new'.            *)
(*                                                                         *)
(* Strings on which the program computes character by character are        *)
(* sequences of character codes (ord values).                              *)
(***************************************************************************)
EXTENDS Integers, Sequences, FiniteSets, TLC

(***************************************************************************)
(* Bounds of the model                                                     *)
(***************************************************************************)
\* longest filename given to the cipher
MaxNameLen == 4
\* caesar is applied with every shift in -MaxShift..MaxShift
MaxShift == 27
\* MAX_QUESTIONS ranges over 1..MaxQuestions
MaxQuestions == 3
\* each audio directory listing holds 0..MaxAudio files
MaxAudio == 3
\* the form loop is followed while the forms hold at most MaxSlots questions
MaxSlots == 6

(***************************************************************************)
(* State                                                                   *)
(***************************************************************************)
\* the cipher under test: the filename given, the calls applied to it in
\* order, the shift given to caesar and the last value returned
VARIABLES filename, calls, shift, result

\* main(): the control point and the exception that ended the run
VARIABLES pc, err

\* main(): configuration and directory listing
VARIABLES MAX_QUESTIONS, DUMMY_QUESTIONS, listing

\* main(): locals of the create_new branch
VARIABLES audio_reference, audio_proposed, audio_baseline, ABX_MODE,
          n_audio, n_forms, n_pad, i, form, forms, response

\* main(): effects outside the process (S3 uploads, survey XML files written,
\* HITs created, forms.pkl written)
VARIABLES uploaded, written, hits, saved

cipher_vars == <<filename, calls, shift, result>>

main_vars == <<pc, err, MAX_QUESTIONS, DUMMY_QUESTIONS, listing,
               audio_reference, audio_proposed, audio_baseline, ABX_MODE,
               n_audio, n_forms, n_pad, i, form, forms, response,
               uploaded, written, hits, saved>>

vars == <<cipher_vars, main_vars>>

(***************************************************************************)
(* Program constants                                                       *)
(***************************************************************************)
CAESAR_SHIFT == 13

(***************************************************************************)
(* Python primitives                                                       *)
(***************************************************************************)
Min(a, b) == IF a <= b THEN a ELSE b

Max(a, b) == IF a >= b THEN a ELSE b

\* Python's k % 26: the result has the sign of the divisor
PyMod26(k) == ((k % 26) + 26) % 26

\* a slice bound as Python normalises it: negative bounds count from the end
SliceBound(k, n) == IF k < 0 THEN Max(k + n, 0) ELSE Min(k, n)

\* s[lo:hi]
PySlice(s, lo, hi) == SubSeq(s, SliceBound(lo, Len(s)) + 1, SliceBound(hi, Len(s)))

\* s[:n]
SliceTo(s, n) == PySlice(s, 0, n)

\* s[n+1:], the slice started one place late
SliceFromNext(s, n) == PySlice(s, n + 1, Len(s))

\* s[n:]
SliceFrom(s, n) == PySlice(s, n, Len(s))

\* math.ceil(a / b) for a >= 0 and b # 0 (true division, then ceiling)
CeilDiv(a, b) == IF b > 0 THEN (a + b - 1) \div b ELSE 0 - (a \div (0 - b))

\* ''.join(parts)
RECURSIVE Join(_)
Join(parts) == IF parts = <<>> THEN <<>> ELSE Head(parts) \o Join(Tail(parts))

\* position of the first sep in s, 0 if there is none
RECURSIVE FindFrom(_, _, _)
FindFrom(s, sep, p) ==
    IF p > Len(s) THEN 0
    ELSE IF s[p] = sep THEN p
    ELSE FindFrom(s, sep, p + 1)

\* s.split(sep) for a one-character separator
RECURSIVE Split(_, _)
Split(s, sep) ==
    LET p == FindFrom(s, sep, 1)
    IN  IF p = 0 THEN <<s>>
        ELSE <<SubSeq(s, 1, p - 1)>> \o Split(SubSeq(s, p + 1, Len(s)), sep)

(***************************************************************************)
(* Filename cipher                                                         *)
(***************************************************************************)
DOT == 46

UNDERSCORE == 95

upper == 65..90

lower == 97..122

digit == 48..57

\* caesar_char with the wrap-around branch lost
caesar_char_nowrap(o, k) ==
    IF (o \notin upper /\ o \notin lower) \/ o \in digit THEN o
    ELSE o + PyMod26(k)

\* caesar_char with the shift added before the remainder is taken
caesar_char_prec(o, k) ==
    IF (o \notin upper /\ o \notin lower) \/ o \in digit THEN o
    ELSE IF o \in upper /\ PyMod26(o + k) \in upper THEN PyMod26(o + k)
    ELSE IF o \in lower /\ PyMod26(o + k) \in lower THEN PyMod26(o + k)
    ELSE PyMod26(o + k) - 26

\* one character of caesar(s, k)
caesar_char(o, k) ==
    IF (o \notin upper /\ o \notin lower) \/ o \in digit THEN o
    ELSE IF o \in upper /\ (o + PyMod26(k)) \in upper THEN o + PyMod26(k)
    ELSE IF o \in lower /\ (o + PyMod26(k)) \in lower THEN o + PyMod26(k)
    ELSE o + PyMod26(k) - 26

caesar(s, k) == [n \in 1..Len(s) |-> caesar_char(s[n], k)]

\* filename.split(".")[-1]
Ext(f) == LET parts == Split(f, DOT) IN parts[Len(parts)]

\* the stem rejoined with its dots: '.'.join(filename.split(".")[:-1])
StemKeepDots(f) ==
    LET parts == SliceTo(Split(f, DOT), 0 - 1)
    IN  IF parts = <<>> THEN <<>>
        ELSE SubSeq(f, 1, Len(f) - Len(Ext(f)) - 1)

\* ''.join(filename.split(".")[:-1])
Stem(f) == Join(SliceTo(Split(f, DOT), 0 - 1))

encode_filename(f) == caesar(Stem(f), CAESAR_SHIFT) \o <<DOT>> \o Ext(f)

decode_filename(f) == caesar(Stem(f), 0 - CAESAR_SHIFT) \o <<DOT>> \o Ext(f)

(***************************************************************************)
(* CipherSpec: the cipher functions applied to bounded filenames           *)
(***************************************************************************)
\* characters of the filenames: '.', '9', 'N', 'Z', '_', 'a', 'z'
Chars == {46, 57, 78, 90, 95, 97, 122}

Names == UNION {[1..n -> Chars] : n \in 0..MaxNameLen}

\* main() has not started
MainIdle ==
    /\ pc = "idle" /\ err = "none"
    /\ MAX_QUESTIONS = 0 /\ DUMMY_QUESTIONS = 0
    /\ listing = [reference |-> 0, proposed |-> 0, baseline |-> 0]
    /\ audio_reference = <<>> /\ audio_proposed = <<>> /\ audio_baseline = <<>>
    /\ ABX_MODE = "unset"
    /\ n_audio = 0 /\ n_forms = 0 /\ n_pad = 0 /\ i = 0
    /\ form = <<>> /\ forms = <<>> /\ response = <<>>
    /\ uploaded = {} /\ written = {} /\ hits = <<>> /\ saved = FALSE

CipherInit ==
    /\ filename \in Names
    /\ calls = <<>> /\ shift = 0 /\ result = <<>>
    /\ MainIdle

\* the value the next call is applied to
Current == IF calls = <<>> THEN filename ELSE result

CallCaesar(k) ==
    /\ calls = <<>>
    /\ result' = caesar(filename, k)
    /\ shift' = k
    /\ calls' = <<"caesar">>
    /\ UNCHANGED <<filename, main_vars>>

CallEncode ==
    /\ Len(calls) < 2 /\ calls # <<"caesar">>
    /\ result' = encode_filename(Current)
    /\ calls' = Append(calls, "encode")
    /\ UNCHANGED <<filename, shift, main_vars>>

CallDecode ==
    /\ Len(calls) < 2 /\ calls # <<"caesar">>
    /\ result' = decode_filename(Current)
    /\ calls' = Append(calls, "decode")
    /\ UNCHANGED <<filename, shift, main_vars>>

CipherNext ==
    \/ \E k \in (0 - MaxShift)..MaxShift : CallCaesar(k)
    \/ CallEncode
    \/ CallDecode

CipherSpec == CipherInit /\ [][CipherNext]_vars

(***************************************************************************)
(* Audio files.  A file is named by its basename, the characters of        *)
(* '<role>_<k>.<AUDIO_EXT>'; the directory part of the path is left out.   *)
(***************************************************************************)
\* 'reference', 'proposed', 'baseline', 'dummy' as characters
RoleChars(role) ==
    CASE role = "reference" -> <<114, 101, 102, 101, 114, 101, 110, 99, 101>>
      [] role = "proposed" -> <<112, 114, 111, 112, 111, 115, 101, 100>>
      [] role = "baseline" -> <<98, 97, 115, 101, 108, 105, 110, 101>>
      [] role = "dummy" -> <<100, 117, 109, 109, 121>>

\* config['audio_ext'], here 'wav'
AUDIO_EXT == <<119, 97, 118>>

\* the k-th file matched by f'{role}_*.{AUDIO_EXT}'
FileName(role, k) == RoleChars(role) \o <<UNDERSCORE, 48 + k>> \o <<DOT>> \o AUDIO_EXT

\* Path(AUDIO_DIR).rglob(f'{role}_*.{AUDIO_EXT}'), as a set: its order is arbitrary
Glob(role) == {FileName(role, k) : k \in 1..listing[role]}

\* s <= t for Python strings
RECURSIVE StrLeq(_, _)
StrLeq(s, t) ==
    IF s = <<>> THEN TRUE
    ELSE IF t = <<>> THEN FALSE
    ELSE IF Head(s) # Head(t) THEN Head(s) < Head(t)
    ELSE StrLeq(Tail(s), Tail(t))

\* key=lambda x: str(x).split("_")[-1]
SortKey(x) == LET parts == Split(x, UNDERSCORE) IN parts[Len(parts)]

\* list(files) followed by .sort(key=SortKey)
RECURSIVE SortedByKey(_)
SortedByKey(files) ==
    IF files = {} THEN <<>>
    ELSE LET m == CHOOSE x \in files :
                    \A y \in files : StrLeq(SortKey(x), SortKey(y))
         IN  <<m>> \o SortedByKey(files \ {m})

\* does s start with t
StartsWith(s, t) == Len(s) >= Len(t) /\ SubSeq(s, 1, Len(t)) = t

\* s.replace(old, new), old not empty
RECURSIVE Replace(_, _, _)
Replace(s, old, new) ==
    IF s = <<>> THEN <<>>
    ELSE IF StartsWith(s, old)
         THEN new \o Replace(SubSeq(s, Len(old) + 1, Len(s)), old, new)
    ELSE <<Head(s)>> \o Replace(Tail(s), old, new)

\* the outcomes of random.shuffle(list(range(n)))
Shuffles(n) ==
    {s \in [1..n -> 0..(n - 1)] : \A a, b \in 1..n : a # b => s[a] # s[b]}

\* position of x in the sequence s
IndexOf(s, x) == CHOOSE j \in 1..Len(s) : s[j] = x

Range(s) == {s[j] : j \in 1..Len(s)}

(***************************************************************************)
(* main(), ACTION == 'create_new'                                          *)
(***************************************************************************)
Init ==
    /\ filename = <<>> /\ calls = <<>> /\ shift = 0 /\ result = <<>>
    /\ pc = "start" /\ err = "none"
    /\ MAX_QUESTIONS \in 1..MaxQuestions
    /\ DUMMY_QUESTIONS \in (0 - 1)..(MAX_QUESTIONS + 1)
    /\ listing \in [{"reference", "proposed", "baseline"} -> 0..MaxAudio]
    /\ audio_reference = <<>> /\ audio_proposed = <<>> /\ audio_baseline = <<>>
    /\ ABX_MODE = "unset"
    /\ n_audio = 0 /\ n_forms = 0 /\ n_pad = 0 /\ i = 0
    /\ form = <<>> /\ forms = <<>> /\ response = <<>>
    /\ uploaded = {} /\ written = {} /\ hits = <<>> /\ saved = FALSE

\* the run ends with an uncaught exception
Raise(e) == pc' = "error" /\ err' = e

\* lines 311-319: list the audio files and sort them by comparison index
ListAudio ==
    /\ pc = "start"
    /\ audio_reference' = SortedByKey(Glob("reference"))
    /\ audio_baseline' = SortedByKey(Glob("baseline"))
    /\ audio_proposed' = SortedByKey(Glob("proposed"))
    /\ pc' = "mode"
    /\ UNCHANGED <<cipher_vars, err, MAX_QUESTIONS, DUMMY_QUESTIONS, listing,
                   ABX_MODE, n_audio, n_forms, n_pad, i, form, forms, response,
                   uploaded, written, hits, saved>>

\* SelectMode with the baseline left out of the second assertion
SelectModeUncheckedBaseline ==
    /\ pc = "mode"
    /\ IF Len(audio_reference) = Len(audio_proposed)
       THEN /\ ABX_MODE' = IF Len(audio_baseline) = 0 THEN "true" ELSE "pseudo"
            /\ pc' = "count" /\ err' = err
       ELSE Raise("AssertionError") /\ ABX_MODE' = ABX_MODE
    /\ UNCHANGED <<cipher_vars, MAX_QUESTIONS, DUMMY_QUESTIONS, listing,
                   audio_reference, audio_proposed, audio_baseline,
                   n_audio, n_forms, n_pad, i, form, forms, response,
                   uploaded, written, hits, saved>>

\* lines 321-328: 'true' or 'pseudo' ABX test
SelectMode ==
    /\ pc = "mode"
    /\ IF Len(audio_baseline) = 0
       THEN IF Len(audio_reference) = Len(audio_proposed)
            THEN ABX_MODE' = "true" /\ pc' = "count" /\ err' = err
            ELSE Raise("AssertionError") /\ ABX_MODE' = ABX_MODE
       ELSE IF Len(audio_reference) = Len(audio_proposed)
                /\ Len(audio_proposed) = Len(audio_baseline)
            THEN ABX_MODE' = "pseudo" /\ pc' = "count" /\ err' = err
            ELSE Raise("AssertionError") /\ ABX_MODE' = ABX_MODE
    /\ UNCHANGED <<cipher_vars, MAX_QUESTIONS, DUMMY_QUESTIONS, listing,
                   audio_reference, audio_proposed, audio_baseline,
                   n_audio, n_forms, n_pad, i, form, forms, response,
                   uploaded, written, hits, saved>>

\* lines 330-332: number of forms for single coverage of the comparisons
CountForms ==
    /\ pc = "count"
    /\ n_audio' = MAX_QUESTIONS - DUMMY_QUESTIONS
    /\ IF n_audio' = 0
       THEN Raise("ZeroDivisionError") /\ n_forms' = n_forms
       ELSE /\ n_forms' = CeilDiv(Len(audio_reference), n_audio')
            /\ pc' = "pad" /\ err' = err
    /\ UNCHANGED <<cipher_vars, MAX_QUESTIONS, DUMMY_QUESTIONS, listing,
                   audio_reference, audio_proposed, audio_baseline, ABX_MODE,
                   n_pad, i, form, forms, response,
                   uploaded, written, hits, saved>>

\* PadAudio padding with the last n_pad entries of each list, audio[-n_pad:]
PadAudioFromEnd ==
    /\ pc = "pad"
    /\ n_pad' = n_forms * n_audio - Len(audio_reference)
    /\ audio_reference' = audio_reference \o SliceFrom(audio_reference, 0 - n_pad')
    /\ audio_proposed' = audio_proposed \o SliceFrom(audio_proposed, 0 - n_pad')
    /\ audio_baseline' = audio_baseline \o SliceFrom(audio_baseline, 0 - n_pad')
    /\ forms' = <<>>
    /\ i' = 0
    /\ pc' = "loop"
    /\ UNCHANGED <<cipher_vars, err, MAX_QUESTIONS, DUMMY_QUESTIONS, listing,
                   ABX_MODE, n_audio, n_forms, form, response,
                   uploaded, written, hits, saved>>

\* lines 334-346: pad the audio lists with duplicates, start with no forms
PadAudio ==
    /\ pc = "pad"
    /\ n_pad' = n_forms * n_audio - Len(audio_reference)
    /\ audio_reference' = audio_reference \o SliceTo(audio_reference, n_pad')
    /\ audio_proposed' = audio_proposed \o SliceTo(audio_proposed, n_pad')
    /\ audio_baseline' = audio_baseline \o SliceTo(audio_baseline, n_pad')
    /\ forms' = <<>>
    /\ i' = 0
    /\ pc' = "loop"
    /\ UNCHANGED <<cipher_vars, err, MAX_QUESTIONS, DUMMY_QUESTIONS, listing,
                   ABX_MODE, n_audio, n_forms, form, response,
                   uploaded, written, hits, saved>>

\* lines 356-359: audio[i * n_audio: (i + 1)*n_audio]
FormSlice(audio) == PySlice(audio, i * n_audio, (i + 1) * n_audio)

\* ComparisonQuestion taking the proposed entry one place further on, form_proposed[(j + 1) % n]
ComparisonQuestionNextProposed(j) ==
    LET next == (j % Len(FormSlice(audio_proposed))) + 1
    IN  IF ABX_MODE = "pseudo"
        THEN [reference |-> FormSlice(audio_reference)[j],
              proposed |-> FormSlice(audio_proposed)[next],
              baseline |-> FormSlice(audio_baseline)[j]]
        ELSE [reference |-> FormSlice(audio_reference)[j],
              proposed |-> FormSlice(audio_proposed)[next]]

\* lines 369-374: the question of the j-th comparison of the form (j from 1)
ComparisonQuestion(j) ==
    IF ABX_MODE = "pseudo"
    THEN [reference |-> FormSlice(audio_reference)[j],
          proposed |-> FormSlice(audio_proposed)[j],
          baseline |-> FormSlice(audio_baseline)[j]]
    ELSE [reference |-> FormSlice(audio_reference)[j],
          proposed |-> FormSlice(audio_proposed)[j]]

\* lines 380-395: the dummy question made from the reference file ref_fn
DummyQuestion(ref_fn) ==
    [reference |-> ref_fn,
     dummy |-> Replace(ref_fn, RoleChars("reference"), RoleChars("dummy"))]

\* len(question_idx[:DUMMY_QUESTIONS])
NumDummy == Len(SliceTo([k \in 1..MAX_QUESTIONS |-> 0], DUMMY_QUESTIONS))

\* lines 347-395: start form i and assign audio to its questions.
\* question_idx is the outcome of random.shuffle, picks[j] that of the j-th
\* random.choice(form_reference), counted from 1.  The three form slices have one length
\* (lines 324, 327, 336-338), so form_reference[j] is the index that raises.
AssignQuestions ==
    /\ pc = "loop"
    /\ i < n_forms
    /\ (i + 1) * MAX_QUESTIONS <= MaxSlots
    /\ \E question_idx \in Shuffles(MAX_QUESTIONS) :
       \E picks \in [1..NumDummy -> 1..Max(1, Len(FormSlice(audio_reference)))] :
          LET form_reference == FormSlice(audio_reference)
              comparison_idx == SliceFrom(question_idx, DUMMY_QUESTIONS)
              dummy_idx == SliceTo(question_idx, DUMMY_QUESTIONS)
              n_assigned == Min(Len(comparison_idx), Len(form_reference))
              comparisons ==
                  [q \in {comparison_idx[j] + 1 : j \in 1..n_assigned} |->
                      ComparisonQuestion(IndexOf(comparison_idx, q - 1))]
              dummies ==
                  [q \in {dummy_idx[j] + 1 : j \in 1..Len(dummy_idx)} |->
                      DummyQuestion(form_reference[picks[IndexOf(dummy_idx, q - 1)]])]
              new_form(questions) ==
                  [form_id |-> i, caesar_shift |-> CAESAR_SHIFT, questions |-> questions]
          IN  IF Len(comparison_idx) > Len(form_reference)
                 \/ (dummy_idx # <<>> /\ form_reference = <<>>)
              THEN /\ form' = new_form(comparisons)
                   /\ Raise("IndexError")
              ELSE /\ form' = new_form(dummies @@ comparisons)
                   /\ pc' = "upload" /\ err' = err
    /\ UNCHANGED <<cipher_vars, MAX_QUESTIONS, DUMMY_QUESTIONS, listing,
                   audio_reference, audio_proposed, audio_baseline, ABX_MODE,
                   n_audio, n_forms, n_pad, i, forms, response,
                   uploaded, written, hits, saved>>

\* lines 397-411: upload the audio of the form under its cipher name and keep
\* the cipher name in the form
UploadAudio ==
    /\ pc = "upload"
    /\ LET qs == form.questions
       IN  /\ form' = [form EXCEPT !.questions =
                          [q \in DOMAIN qs |->
                              [c \in DOMAIN qs[q] |-> encode_filename(qs[q][c])]]]
           /\ uploaded' = uploaded \cup
                  UNION {{encode_filename(qs[q][c]) : c \in DOMAIN qs[q]} :
                            q \in DOMAIN qs}
    /\ pc' = "survey"
    /\ UNCHANGED <<cipher_vars, err, MAX_QUESTIONS, DUMMY_QUESTIONS, listing,
                   audio_reference, audio_proposed, audio_baseline, ABX_MODE,
                   n_audio, n_forms, n_pad, i, forms, response,
                   written, hits, saved>>

\* QuestionHTML with the sides of 'true' mode used in 'pseudo' mode too
QuestionHTMLOneMode(question, q, coin_toss) ==
    LET category_a ==
            IF "dummy" \in DOMAIN q
            THEN (IF coin_toss THEN "dummy" ELSE "reference")
            ELSE (IF coin_toss THEN "proposed" ELSE "reference")
        category_b ==
            IF "dummy" \in DOMAIN q
            THEN (IF coin_toss THEN "reference" ELSE "dummy")
            ELSE (IF coin_toss THEN "reference" ELSE "proposed")
    IN  [n_question |-> question,
         n_questions |-> MAX_QUESTIONS,
         category_a |-> category_a,
         category_b |-> category_b,
         audio_a |-> q[category_a],
         audio_b |-> q[category_b],
         audio_x |-> q["reference"]]

\* lines 417-440: the fields put in the question template
QuestionHTML(question, q, coin_toss) ==
    LET category_a ==
            IF "dummy" \in DOMAIN q
            THEN (IF coin_toss THEN "dummy" ELSE "reference")
            ELSE IF ABX_MODE = "true"
                 THEN (IF coin_toss THEN "proposed" ELSE "reference")
                 ELSE (IF coin_toss THEN "proposed" ELSE "baseline")
        category_b ==
            IF "dummy" \in DOMAIN q
            THEN (IF coin_toss THEN "reference" ELSE "dummy")
            ELSE IF ABX_MODE = "true"
                 THEN (IF coin_toss THEN "reference" ELSE "proposed")
                 ELSE (IF coin_toss THEN "baseline" ELSE "proposed")
    IN  [n_question |-> question,
         n_questions |-> MAX_QUESTIONS,
         category_a |-> category_a,
         category_b |-> category_b,
         audio_a |-> q[category_a],
         audio_b |-> q[category_b],
         audio_x |-> q["reference"]]

\* lines 53-62: the questions combined in order, 1..n_questions
build_survey_xml(a_form, n_questions) ==
    [question \in 1..n_questions |-> a_form.questions[question]["html"]]

\* lines 413-468: render the questions (coin_toss[question] is the outcome of
\* random.random() > 0.5), build and write the survey XML, append the form
GenerateSurvey ==
    /\ pc = "survey"
    /\ \E coin_toss \in [DOMAIN form.questions -> BOOLEAN] :
          LET qs == form.questions
              rendered ==
                  [form EXCEPT !.questions =
                      [q \in DOMAIN qs |->
                          ("html" :> QuestionHTML(q, qs[q], coin_toss[q])) @@ qs[q]]]
          IN  IF (1..MAX_QUESTIONS) \subseteq DOMAIN qs
              THEN /\ form' = ("final_xml" :> build_survey_xml(rendered, MAX_QUESTIONS))
                                  @@ rendered
                   /\ forms' = Append(forms, form')
                   /\ written' = written \cup {form.form_id}
                   /\ i' = i + 1
                   /\ pc' = "loop" /\ err' = err
              ELSE /\ form' = rendered
                   /\ Raise("KeyError")
                   /\ UNCHANGED <<forms, written, i>>
    /\ UNCHANGED <<cipher_vars, MAX_QUESTIONS, DUMMY_QUESTIONS, listing,
                   audio_reference, audio_proposed, audio_baseline, ABX_MODE,
                   n_audio, n_forms, n_pad, response, uploaded, hits, saved>>

\* str.lower()
Lower(s) == [n \in 1..Len(s) |-> IF s[n] \in upper THEN s[n] + 32 ELSE s[n]]

\* the characters str.strip() removes: space, \t, \n, \v, \f, \r
Whitespace == {32, 9, 10, 11, 12, 13}

\* str.strip()
RECURSIVE Strip(_)
Strip(s) ==
    IF s = <<>> THEN s
    ELSE IF Head(s) \in Whitespace THEN Strip(Tail(s))
    ELSE IF s[Len(s)] \in Whitespace THEN Strip(SubSeq(s, 1, Len(s) - 1))
    ELSE s

\* answers typed at the prompt: ' Y ' and 'yes'
Responses == {<<32, 89, 32>>, <<121, 101, 115>>}

\* Confirm comparing the answer as typed: response == 'y'
ConfirmAsTyped ==
    /\ pc = "loop"
    /\ i >= n_forms
    /\ \E answer \in Responses :
          /\ response' = answer
          /\ pc' = IF answer = <<121>> THEN "hits" ELSE "done"
    /\ UNCHANGED <<cipher_vars, err, MAX_QUESTIONS, DUMMY_QUESTIONS, listing,
                   audio_reference, audio_proposed, audio_baseline, ABX_MODE,
                   n_audio, n_forms, n_pad, i, form, forms,
                   uploaded, written, hits, saved>>

\* lines 470-478 and 512-513: every form is generated; ask for confirmation
Confirm ==
    /\ pc = "loop"
    /\ i >= n_forms
    /\ \E answer \in Responses :
          /\ response' = answer
          /\ pc' = IF Strip(Lower(answer)) = <<121>> THEN "hits" ELSE "done"
    /\ UNCHANGED <<cipher_vars, err, MAX_QUESTIONS, DUMMY_QUESTIONS, listing,
                   audio_reference, audio_proposed, audio_baseline, ABX_MODE,
                   n_audio, n_forms, n_pad, i, form, forms,
                   uploaded, written, hits, saved>>

\* lines 480-506: create the HIT of the next form and record its identifiers
CreateHIT ==
    /\ pc = "hits"
    /\ Len(hits) < Len(forms)
    /\ LET k == Len(hits) + 1
           hit == [HITId |-> k, HITGroupId |-> 1, Question |-> forms[k].final_xml]
       IN  /\ hits' = Append(hits, hit)
           /\ form' = [hit_id |-> hit.HITId, hit_group_id |-> hit.HITGroupId,
                       survey_id |-> "survey_id"] @@ forms[k]
           /\ forms' = [forms EXCEPT ![k] = form']
    /\ UNCHANGED <<cipher_vars, pc, err, MAX_QUESTIONS, DUMMY_QUESTIONS, listing,
                   audio_reference, audio_proposed, audio_baseline, ABX_MODE,
                   n_audio, n_forms, n_pad, i, response,
                   uploaded, written, saved>>

\* lines 508-510: every HIT is created; pickle the forms
SaveForms ==
    /\ pc = "hits"
    /\ Len(hits) = Len(forms)
    /\ saved' = TRUE
    /\ pc' = "done"
    /\ UNCHANGED <<cipher_vars, err, MAX_QUESTIONS, DUMMY_QUESTIONS, listing,
                   audio_reference, audio_proposed, audio_baseline, ABX_MODE,
                   n_audio, n_forms, n_pad, i, form, forms, response,
                   uploaded, written, hits>>

Next ==
    \/ ListAudio
    \/ SelectMode
    \/ CountForms
    \/ PadAudio
    \/ AssignQuestions
    \/ UploadAudio
    \/ GenerateSurvey
    \/ Confirm
    \/ CreateHIT
    \/ SaveForms

Spec == Init /\ [][Next]_vars

(***************************************************************************)
(* Properties of the cipher (checked under CipherSpec)                     *)
(***************************************************************************)
DotPositions(f) == {n \in 1..Len(f) : f[n] = DOT}

LastDot(f) == CHOOSE p \in DotPositions(f) : \A q \in DotPositions(f) : q <= p

\* the text after the last '.', the whole text if there is no '.'
AfterLastDot(f) ==
    IF DotPositions(f) = {} THEN f ELSE SubSeq(f, LastDot(f) + 1, Len(f))

NotDot(c) == c # DOT

\* x modulo 26, as the remainder in 0..25, for x >= -104
Rem26(x) == (x + 104) % 26

\* the letter k places after c in c's own alphabet, circularly
ShiftedLetter(c, k) ==
    IF c \in 65..90 THEN 65 + Rem26(c - 65 + k)
    ELSE IF c \in 97..122 THEN 97 + Rem26(c - 97 + k)
    ELSE c

RoundTrips == {<<"encode", "decode">>, <<"decode", "encode">>}

\* C1: for a filename with exactly one '.', decode_filename(encode_filename(
\* name)) and encode_filename(decode_filename(name)) both give name back.
C1_RoundTrip ==
    (Cardinality(DotPositions(filename)) = 1 /\ calls \in RoundTrips)
        => result = filename

\* C1 witness: 'N.a' was encoded (to 'A.a') and decoded back to 'N.a'
C1_Witness ==
    /\ filename = <<78, 46, 97>>
    /\ calls = <<"encode", "decode">>
    /\ result = <<78, 46, 97>>

\* C9: caesar(s, k) maps every upper-case letter to the upper-case letter k
\* places on (mod 26), every lower-case letter to the lower-case letter k
\* places on (mod 26), and every other character to itself; encode_filename
\* and decode_filename return a name that ends with '.' and the unchanged
\* extension, and for a name with one '.' they shift the letters of the stem
\* by 13 and leave every other character in place.
C9_CaesarShift ==
    /\ calls = <<"caesar">> =>
          /\ Len(result) = Len(filename)
          /\ \A n \in 1..Len(filename) :
                result[n] = ShiftedLetter(filename[n], shift)
    /\ (Len(calls) = 1 /\ calls # <<"caesar">>) =>
          /\ Len(result) > Len(AfterLastDot(filename))
          /\ AfterLastDot(result) = AfterLastDot(filename)
          /\ Cardinality(DotPositions(filename)) = 1 =>
                /\ Len(result) = Len(filename)
                /\ \A n \in 1..Len(filename) :
                      result[n] = IF n < LastDot(filename)
                                  THEN ShiftedLetter(filename[n], 13)
                                  ELSE filename[n]

\* C9 witness: caesar('Zz9', -13) returned 'Mm9'
C9_Witness ==
    /\ calls = <<"caesar">>
    /\ shift = 0 - 13
    /\ filename = <<90, 122, 57>>
    /\ result = <<77, 109, 57>>

\* C10: for a filename with two or more '.', encode_filename and
\* decode_filename return the shifted characters that precede the last '.',
\* the interior dots removed, then one '.' and the text after the last '.';
\* the result holds exactly one '.'.
C10_InteriorDots ==
    (Len(calls) = 1 /\ calls # <<"caesar">>
        /\ Cardinality(DotPositions(filename)) >= 2) =>
        LET kept == SelectSeq(SubSeq(filename, 1, LastDot(filename) - 1), NotDot)
        IN  /\ result = [n \in 1..Len(kept) |-> ShiftedLetter(kept[n], 13)]
                            \o <<DOT>> \o AfterLastDot(filename)
            /\ Cardinality(DotPositions(result)) = 1

\* C10 witness: encode_filename('a..9') returned 'n.9'
C10_Witness ==
    /\ filename = <<97, 46, 46, 57>>
    /\ calls = <<"encode">>
    /\ result = <<110, 46, 57>>

(***************************************************************************)
(* Properties of a create_new run (checked under Spec)                     *)
(***************************************************************************)
\* the configured counts satisfy 0 <= dummy_questions < max_questions
ValidCounts == 0 <= DUMMY_QUESTIONS /\ DUMMY_QUESTIONS < MAX_QUESTIONS

\* the forms whose questions are all assigned: the forms appended and the
\* form being uploaded or rendered
FormsBuilt ==
    Range(forms) \cup (IF pc \in {"upload", "survey"} THEN {form} ELSE {})

DummySlots(f) == {q \in DOMAIN f.questions : "dummy" \in DOMAIN f.questions[q]}

ComparisonSlots(f) == {q \in DOMAIN f.questions : "proposed" \in DOMAIN f.questions[q]}

\* the padding step is over
AfterPad ==
    \/ pc \in {"loop", "upload", "survey", "hits", "done"}
    \/ pc = "error" /\ err \in {"IndexError", "KeyError"}

\* the number of reference files given to the run
NumReference == listing["reference"]

\* C2: with 0 <= DUMMY_QUESTIONS < MAX_QUESTIONS, the questions of every
\* form are keyed by exactly 1..MAX_QUESTIONS; exactly DUMMY_QUESTIONS of
\* them are dummy slots (holding 'reference' and 'dummy'), the other
\* MAX_QUESTIONS - DUMMY_QUESTIONS are comparison slots (holding 'reference'
\* and 'proposed'), and no slot is both.
C2_SlotPartition ==
    ValidCounts =>
        \A f \in FormsBuilt :
            /\ DOMAIN f.questions = 1..MAX_QUESTIONS
            /\ Cardinality(DummySlots(f)) = DUMMY_QUESTIONS
            /\ Cardinality(ComparisonSlots(f)) = MAX_QUESTIONS - DUMMY_QUESTIONS
            /\ DummySlots(f) \cap ComparisonSlots(f) = {}
            /\ DummySlots(f) \cup ComparisonSlots(f) = 1..MAX_QUESTIONS
            /\ \A q \in 1..MAX_QUESTIONS : "reference" \in DOMAIN f.questions[q]

\* C2 witness: a form of 3 questions with 1 dummy was appended, its dummy in
\* slot 2 and its comparisons in slots 1 and 3
C2_Witness ==
    /\ MAX_QUESTIONS = 3 /\ DUMMY_QUESTIONS = 1
    /\ Len(forms) >= 1
    /\ DummySlots(forms[1]) = {2}
    /\ ComparisonSlots(forms[1]) = {1, 3}

\* C3: with valid counts and at least one reference file, after the padding
\* step each aligned list has length n_forms * comparisons_per_form, and no
\* comparison slot is left without audio (no index error in the form loop).
C3_PaddedFull ==
    (ValidCounts /\ NumReference >= 1 /\ AfterPad) =>
        /\ Len(audio_reference) = n_forms * n_audio
        /\ Len(audio_proposed) = n_forms * n_audio
        /\ ABX_MODE = "pseudo" => Len(audio_baseline) = n_forms * n_audio
        /\ err # "IndexError"

\* the fields a rendered question shows
Rendered(f) == {q \in DOMAIN f.questions : "html" \in DOMAIN f.questions[q]}

FormsRendered == Range(forms) \cup (IF pc = "error" /\ err = "KeyError" THEN {form} ELSE {})

\* C4 as claimed: (with valid counts) in every rendered question the
\* reference audio is the anchor X and the category 'reference' is on neither
\* side A nor side B.
C4_ReferenceNeverSide ==
    ValidCounts => \A f \in FormsRendered : \A q \in Rendered(f) :
        LET h == f.questions[q]["html"]
        IN  /\ h.audio_x = f.questions[q]["reference"]
            /\ h.category_a # "reference"
            /\ h.category_b # "reference"

\* C4 amended: in every rendered question the reference audio is the anchor
\* X and sides A and B hold two different categories.  In a comparison
\* question of 'pseudo' mode the sides are 'proposed' and 'baseline', never
\* 'reference'; in a comparison question of 'true' mode they are 'proposed'
\* and 'reference', in a dummy question 'dummy' and 'reference': there the
\* reference audio is also on one of the two sides.
C4_SidesByMode ==
    \A f \in FormsRendered : \A q \in Rendered(f) :
        LET h == f.questions[q]["html"]
            sides == {h.category_a, h.category_b}
        IN  /\ h.audio_x = f.questions[q]["reference"]
            /\ h.audio_a = f.questions[q][h.category_a]
            /\ h.audio_b = f.questions[q][h.category_b]
            /\ h.category_a # h.category_b
            /\ sides = IF q \in DummySlots(f) THEN {"dummy", "reference"}
                       ELSE IF ABX_MODE = "true" THEN {"proposed", "reference"}
                       ELSE {"proposed", "baseline"}

\* C4 witness: 'true' mode, a comparison question with the reference on side
\* A, and a dummy question with the reference on side B, in one form
C4_Witness ==
    /\ ValidCounts
    /\ ABX_MODE = "true"
    /\ Len(forms) >= 1
    /\ \E q \in ComparisonSlots(forms[1]) :
           /\ forms[1].questions[q]["html"].category_a = "reference"
           /\ forms[1].questions[q]["html"].audio_a = forms[1].questions[q]["html"].audio_x
    /\ \E q \in DummySlots(forms[1]) :
           forms[1].questions[q]["html"].category_b = "reference"
\* the comparison slots of the appended forms, as <<position of the form in
\* forms, question>>
AllComparisonSlots ==
    UNION {{<<n, q>> : q \in ComparisonSlots(forms[n])} : n \in 1..Len(forms)}

\* the audio a slot compares
Triple(slot) ==
    LET question == forms[slot[1]].questions[slot[2]]
    IN  [c \in DOMAIN question \ {"html"} |-> question[c]]

\* the names under which the files of each role are kept in the forms
CipherNames ==
    [role \in {"reference", "proposed", "baseline"} |->
        [k \in 1..MaxAudio |-> encode_filename(FileName(role, k))]]

\* the k-th triple of the original lists, under the names kept in the forms
OrigTriple(k) ==
    IF ABX_MODE = "pseudo"
    THEN [reference |-> CipherNames["reference"][k],
          proposed |-> CipherNames["proposed"][k],
          baseline |-> CipherNames["baseline"][k]]
    ELSE [reference |-> CipherNames["reference"][k],
          proposed |-> CipherNames["proposed"][k]]

\* the comparison slots that use the k-th original triple
Uses(k) == {slot \in AllComparisonSlots : Triple(slot) = OrigTriple(k)}

\* C5: with valid counts, every comparison slot uses a triple of the original
\* lists; no triple is used by two comparison slots of the forms before the
\* last; a triple used more than once is used twice, once of them in the
\* final form, and is one of the first n_pad triples (so at most n_pad
\* triples repeat); when every form is generated each of the first n_pad
\* triples is used twice and every other triple once.
C5_RepeatsOnlyInLastForm ==
    (ValidCounts /\ ABX_MODE # "unset") =>
        LET slots == AllComparisonSlots
            triple == [slot \in slots |-> Triple(slot)]
            orig == [k \in 1..NumReference |-> OrigTriple(k)]
            uses == [k \in 1..NumReference |-> {slot \in slots : triple[slot] = orig[k]}]
        IN  /\ \A slot \in slots : \E k \in 1..NumReference : triple[slot] = orig[k]
            /\ \A k \in 1..NumReference :
                  /\ Cardinality({slot \in uses[k] : slot[1] < n_forms}) <= 1
                  /\ Cardinality(uses[k]) >= 2 =>
                        /\ k <= n_pad
                        /\ Cardinality(uses[k]) = 2
                        /\ \E slot \in uses[k] : slot[1] = n_forms
                  /\ pc \in {"hits", "done"} =>
                        Cardinality(uses[k]) = IF k <= n_pad THEN 2 ELSE 1

\* C5 witness: 3 triples in forms of 2 comparisons: 2 forms, n_pad = 1, and
\* the first triple is used in the first form and again in the second
C5_Witness ==
    /\ MAX_QUESTIONS = 2 /\ DUMMY_QUESTIONS = 0 /\ NumReference = 3
    /\ pc = "done" /\ Len(forms) = 2 /\ n_pad = 1
    /\ \E q1, q2 \in 1..2 : Uses(1) = {<<1, q1>>, <<2, q2>>}

\* the smallest c with c * d >= n, for d >= 1
Ceiling(n, d) == CHOOSE c \in 0..n : c * d >= n /\ (c - 1) * d < n

\* the run is over: it returned or it raised after the mode was selected
RunOverAfterMode == pc = "done" \/ (pc = "error" /\ err # "AssertionError")

\* C6: with valid counts, a run that got past the mode selection ends with
\* exactly ceil(N / comparisons_per_form) forms, 0 <= n_pad <
\* comparisons_per_form, and N + n_pad comparison slots over all forms; N = 0
\* gives zero forms without an error.
C6_FormCount ==
    (ValidCounts /\ RunOverAfterMode) =>
        /\ pc = "done"
        /\ Len(forms) = Ceiling(NumReference, MAX_QUESTIONS - DUMMY_QUESTIONS)
        /\ n_pad = Len(forms) * (MAX_QUESTIONS - DUMMY_QUESTIONS) - NumReference
        /\ 0 <= n_pad /\ n_pad < MAX_QUESTIONS - DUMMY_QUESTIONS
        /\ Cardinality(AllComparisonSlots) = NumReference + n_pad

\* the lengths of the three listings allow an ABX mode
ListingTrue == listing["baseline"] = 0 /\ listing["reference"] = listing["proposed"]

ListingPseudo ==
    /\ listing["baseline"] > 0
    /\ listing["reference"] = listing["proposed"]
    /\ listing["proposed"] = listing["baseline"]

\* C7: once the mode selection has run: with no baseline file and as many
\* reference as proposed files the mode is 'true'; with baseline files and
\* three listings of one length it is 'pseudo'; in every other case the run
\* has ended with an AssertionError, and no form was generated, no audio
\* uploaded, no survey written and no HIT created.
C7_ModeSelection ==
    pc \notin {"start", "mode"} =>
        /\ ListingTrue => (ABX_MODE = "true" /\ err # "AssertionError")
        /\ ListingPseudo => (ABX_MODE = "pseudo" /\ err # "AssertionError")
        /\ (~ListingTrue /\ ~ListingPseudo) =>
              /\ pc = "error" /\ err = "AssertionError"
              /\ ABX_MODE = "unset"
              /\ form = <<>> /\ forms = <<>>
              /\ uploaded = {} /\ written = {} /\ hits = <<>>

\* C7 witness: 2 reference, 2 proposed and 1 baseline file: AssertionError
C7_Witness ==
    /\ ValidCounts
    /\ listing["reference"] = 2 /\ listing["proposed"] = 2
    /\ listing["baseline"] = 1
    /\ pc = "error" /\ err = "AssertionError"

\* C8: when the counts violate 0 <= dummy_questions < max_questions the run
\* (here one given at least one reference file) fails with an error: it
\* never gets past the form loop, with an empty list of forms or with any
\* form.
C8_InvalidCountsFail ==
    (~ValidCounts /\ NumReference >= 1) =>
        /\ pc \notin {"hits", "done"}
        /\ forms = <<>>

\* the answer is 'y' or 'Y' between any number of whitespace characters
IsYes(answer) ==
    \E p \in 1..Len(answer) :
        /\ answer[p] \in {121, 89}
        /\ \A n \in 1..Len(answer) : n # p => answer[n] \in {32, 9, 10, 11, 12, 13}

\* the run has asked for confirmation
Answered == pc \in {"hits", "done"}

\* the cipher names a form refers to
AudioOf(f) ==
    UNION {{f.questions[q][c] : c \in DOMAIN f.questions[q] \ {"html"}} :
              q \in DOMAIN f.questions}

\* the forms that hold a task identifier
FormsWithHIT == {n \in 1..Len(forms) : "hit_id" \in DOMAIN forms[n]}

\* C11: a HIT exists only after the confirmation was asked with every form
\* generated (one per iteration of the form loop, in order), its audio
\* uploaded and its survey written, and only if the answer is 'y' once
\* trimmed and lower-cased; the HITs are created one per form in form order
\* and each of these forms holds its HIT's identifier; forms.pkl is written
\* only after the last HIT, and a confirmed run ends with one HIT per form
\* and forms.pkl written.  For any other answer, and before the answer, there
\* is no HIT, no form holds a task identifier and forms.pkl is not written.
C11_HITsAfterConfirmation ==
    /\ (hits # <<>> \/ saved \/ FormsWithHIT # {}) =>
          /\ Answered /\ IsYes(response)
          /\ i >= n_forms /\ Len(forms) = i
          /\ \A n \in 1..Len(forms) :
                /\ forms[n].form_id = n - 1
                /\ forms[n].form_id \in written
                /\ AudioOf(forms[n]) \subseteq uploaded
    /\ Len(hits) <= Len(forms)
    /\ FormsWithHIT = 1..Len(hits)
    /\ \A n \in 1..Len(hits) :
          /\ hits[n].HITId = n
          /\ hits[n].Question = forms[n].final_xml
          /\ forms[n].hit_id = hits[n].HITId
    /\ saved => (pc = "done" /\ Len(hits) = Len(forms))
    /\ (pc = "done" /\ IsYes(response)) => (saved /\ Len(hits) = Len(forms))
    /\ (Answered /\ ~IsYes(response)) => pc = "done"

\* C11 witness: the answer ' Y ' was given with 2 forms generated; 2 HITs
\* were created, the second for the second form, and forms.pkl was written
C11_Witness ==
    /\ response = <<32, 89, 32>>
    /\ pc = "done" /\ saved
    /\ Len(forms) = 2 /\ Len(hits) = 2
    /\ forms[2].form_id = 1 /\ forms[2].hit_id = 2
    /\ hits[2].Question = forms[2].final_xml

\* the number k of the file '<role>_<k>.wav'
FileNumber(role, name) == name[Len(RoleChars(role)) + 2] - 48

\* the original sorted lists: the lists as sorted, without the padding
OriginalList(audio) == SubSeq(audio, 1, Min(Len(audio), NumReference))

\* the name under which a form keeps a file once the form is uploaded
KeptName(role, name) == CipherNames[role][FileNumber(role, name)]

\* question q of a form holds the entries at index k of the original lists:
\* as listed while the form is not uploaded, under their cipher names after
AlignedAt(question, k, is_uploaded) ==
    /\ k <= Len(OriginalList(audio_proposed))
    /\ question["reference"] =
          IF is_uploaded THEN KeptName("reference", OriginalList(audio_reference)[k])
          ELSE OriginalList(audio_reference)[k]
    /\ question["proposed"] =
          IF is_uploaded THEN KeptName("proposed", OriginalList(audio_proposed)[k])
          ELSE OriginalList(audio_proposed)[k]
    /\ IF ABX_MODE = "pseudo"
       THEN /\ k <= Len(OriginalList(audio_baseline))
            /\ question["baseline"] =
                  IF is_uploaded THEN KeptName("baseline", OriginalList(audio_baseline)[k])
                  ELSE OriginalList(audio_baseline)[k]
       ELSE "baseline" \notin DOMAIN question

\* the form whose questions are being assigned or uploaded, if any
FormNotUploaded ==
    IF pc = "upload" \/ (pc = "error" /\ err = "IndexError") THEN {form} ELSE {}

FormsUploaded == Range(forms) \cup (IF pc = "survey" THEN {form} ELSE {})

\* C12: in every comparison question of every form (the padded final form
\* and a form left unfinished included) the reference, the proposed and, in
\* 'pseudo' mode, the baseline entry are the entries at one index of the
\* original sorted lists; in 'true' mode the question holds no baseline.
C12_TripleAlignment ==
    /\ \A f \in FormNotUploaded : \A q \in ComparisonSlots(f) :
          \E k \in 1..NumReference : AlignedAt(f.questions[q], k, FALSE)
    /\ \A f \in FormsUploaded : \A q \in ComparisonSlots(f) :
          \E k \in 1..NumReference : AlignedAt(f.questions[q], k, TRUE)

\* C12 witness: 'pseudo' mode, 3 triples in forms of 2 comparisons: the
\* padded second form compares the third triple and, again, the first
C12_Witness ==
    /\ ABX_MODE = "pseudo" /\ ValidCounts
    /\ MAX_QUESTIONS = 2 /\ NumReference = 3 /\ n_pad = 1
    /\ Len(forms) = 2
    /\ \E q1, q3 \in ComparisonSlots(forms[2]) :
          /\ AlignedAt(forms[2].questions[q1], 1, TRUE)
          /\ AlignedAt(forms[2].questions[q3], 3, TRUE)

====
